---- MODULE Spec2Model ----
(***************************************************************************)
(* Model of the streaming orchestrator of src/src/agent.py                 *)
(* (handler, Agent.send_feedback, Agent.add_to_history, Agent.init,        *)
(* Message.new) and of the remote workspace tools of src/src/tools.py it   *)
(* calls (create_app_environment, load_code, edit_code,                    *)
(* get_code_for_display).                                                  *)
(*                                                                         *)
(* send_feedback is an async generator.  One action of the model is one    *)
(* run of the generator between two places where it can be suspended (a    *)
(* yield, an await of a remote call) or between two pulls of the           *)
(* generation stream; the shared fields of the Agent (history, init_data)  *)
(* are read and written in the action that holds the statement that reads  *)
(* or writes them.                                                         *)
(*                                                                         *)
(* trace[g] records, in order, everything generator g did that is visible  *)
(* outside it: the envelopes it yielded, the remote calls it issued and    *)
(* the stream items it received.                                           *)
(*                                                                         *)
(* Four specifications share the actions: Spec, one session that sends     *)
(* one request at a time; SpecConc, two sessions whose requests are in     *)
(* flight together on the one Agent; SpecRequests, one session that also   *)
(* sends load_code and get_code_for_display requests and envelopes of      *)
(* other types; SpecFair, one session under the fairness of the steps of   *)
(* a cycle, for termination.                                               *)
(***************************************************************************)
EXTENDS Naturals, Sequences, FiniteSets

VARIABLES
    history,     \* Agent.history: sequence of [role, content]
    init_data,   \* Agent.init_data: 0 is the empty dict, s > 0 is {"sandbox_id": s, ...}
    tools,       \* Agent.tools
    initPc,      \* position of the handler's init request
    gens,        \* the local variables and position of each send_feedback generator
    trace,       \* per generator: the envelopes, calls and stream items so far
    ws,          \* remote workspaces: sandbox id -> path -> content
    nSandboxes,  \* number of sandboxes created so far
    cycles,      \* number of send_feedback generators created so far
    nItems,      \* number of stream items delivered so far, over all cycles
    nEntries,    \* number of file entries delivered so far, over all cycles
    initBy,      \* the session whose init request is in flight, 0 when none is
    clients      \* per session: the sandbox id its last init returned, and the type, the
                 \* sandbox id (0 when it names none) and the result of the last request
                 \* of it that handler answered; failed is not a value of the code: it
                 \* keeps the remote reads that failed inside that request's tool call

vars == <<history, init_data, tools, initPc, gens, trace, ws, nSandboxes, cycles, nItems, nEntries,
          initBy, clients>>

(***************************************************************************)
(* Bounds of the model.                                                    *)
(***************************************************************************)
MaxItems == 2       \* stream items delivered in one behaviour, over all cycles
MaxFiles == 2       \* file entries delivered in one behaviour, over all items
MaxCycles == 2      \* send_feedback cycles of one behaviour
MaxSandboxes == 2   \* sandboxes created by init requests

Gens == {1, 2}
\* the sessions (connections) that send requests to handler
Sessions == {1, 2}
Sandboxes == 1 .. MaxSandboxes
Paths == {"src/App.tsx", "src/index.css"}
\* files of the sandbox image that no stream of this model writes
ImagePaths == {"src/logo.svg", "src/components/Nav.tsx"}
\* the files of a sandbox under DEFAULT_CODE_PATH; "src/x" stands for /app/src/x
SandboxPaths == Paths \cup ImagePaths
Contents == {"v1", "v2"}
PlanValues == {"Plan", "Plan done"}
PlanStates == {"InProgress", "Complete"}
Feedbacks == {"make it blue", "add a page"}
Absent == "absent"
ToolList == <<"create_app_environment", "load_code", "edit_code", "get_code_for_display">>

SeqUpTo(S, n) == UNION {[1 .. k -> S] : k \in 0 .. n}

FileEntries == [path : Paths, content : Contents]
FileLists == SeqUpTo(FileEntries, MaxFiles)
\* Partial Generation Result of the BAML stream: partial.plan.state,
\* partial.plan.value, partial.files
Partials == [state : PlanStates, value : PlanValues, files : FileLists]

(***************************************************************************)
(* Message.new(type, data, id).to_dict().  data is the dict as a set of    *)
(* key/value pairs.  A uuid4() value is modelled by the place that drew it *)
(* (cycle ordinal, call site): every call site runs at most once per       *)
(* generator, so two draws never agree.  The timestamp is not modelled.    *)
(***************************************************************************)
\* faulty variant of Uuid: the ids are drawn once, when the Agent is made
UuidOncePerAgent(n, site) == <<0, site>>

Uuid(n, site) == <<n, site>>

Message(type, data, id) == [id |-> id, type |-> type, data |-> data]

Text(t) == {<<"text", t>>}

WorkingOn(path) ==
    CASE path = "src/App.tsx" -> "Working on src/App.tsx"
      [] path = "src/index.css" -> "Working on src/index.css"

(***************************************************************************)
(* Events of a trace.                                                      *)
(***************************************************************************)
Emit(m) == [kind |-> "emit", msg |-> m]
Call(op, sid, arg) == [kind |-> "call", op |-> op, sandbox_id |-> sid, arg |-> arg]
Recv(p) == [kind |-> "item", partial |-> p]

(***************************************************************************)
(* Python dicts keep insertion order: new_code_map is a sequence of        *)
(* [path, content] with pairwise different paths.                          *)
(***************************************************************************)
Keys(map) == {map[i].path : i \in 1 .. Len(map)}

\* the template every new sandbox is cloned from (tools.py image)
Template == [p \in SandboxPaths |-> IF p = "src/index.css" THEN Absent ELSE "v0"]

\* tools.load_code: the file map of the sandbox, existing files only
LoadCode(files) == [p \in {q \in SandboxPaths : files[q] # Absent} |-> files[p]]

\* tools.edit_code: upload every entry of code_map, in order
RECURSIVE EditCode(_, _)
EditCode(files, map) ==
    IF map = <<>> THEN files
    ELSE EditCode([files EXCEPT ![Head(map).path] = Head(map).content], Tail(map))

(***************************************************************************)
(* What handler gave back to a request that is not a user request: the     *)
(* dict of a Message (lines 276, 279, 282; its fresh id and its timestamp  *)
(* are not modelled), the empty dict of line 284, or the exception that    *)
(* left handler.                                                           *)
(***************************************************************************)
NoResult == [kind |-> "none"]
Result(type, data) == [kind |-> "message", type |-> type, data |-> data]
EmptyDict == [kind |-> "empty"]
Raised(error) == [kind |-> "raised", error |-> error]

(***************************************************************************)
(* The locals of a generator that has not run.  error is the exception     *)
(* that left the generator, "" when none did.  history_at_start and        *)
(* ws_at_start are not variables of the code: they keep Agent.history and  *)
(* the remote workspaces as they were when the generator was created, for  *)
(* the properties that compare with them.                                  *)
(***************************************************************************)
Fresh ==
    [pc |-> "idle", n |-> 0, feedback |-> "", code_map |-> <<>>, history |-> <<>>,
     sent_plan |-> FALSE, new_code_map |-> <<>>, partial |-> <<>>, fidx |-> 0,
     error |-> "", history_at_start |-> <<>>, ws_at_start |-> <<>>]

Init ==
    /\ history = <<>>
    /\ init_data = 0
    /\ tools = <<>>
    /\ initPc = "idle"
    /\ gens = [g \in Gens |-> Fresh]
    /\ trace = [g \in Gens |-> <<>>]
    /\ ws = [s \in Sandboxes |-> [p \in SandboxPaths |-> Absent]]
    /\ nSandboxes = 0
    /\ cycles = 0
    /\ nItems = 0
    /\ nEntries = 0
    /\ initBy = 0
    /\ clients = [s \in Sessions |-> [sandbox_id |-> 0, request |-> "", asked |-> 0, result |-> NoResult,
                                      failed |-> {}]]

IsEmit(e) == e.kind = "emit"
IsItem(e) == e.kind = "item"
IsCall(e) == e.kind = "call"

Record(g, events) == [trace EXCEPT ![g] = @ \o events]

Free(g) == gens[g].pc \in {"idle", "done", "failed"}

\* faulty variant of StartCycle: update_in_progress is not yielded
StartCycleSilent(g, fb) ==
    /\ Free(g)
    /\ cycles < MaxCycles
    /\ cycles' = cycles + 1
    /\ gens' = [gens EXCEPT ![g] =
                  [Fresh EXCEPT !.pc = "started", !.n = cycles + 1, !.feedback = fb,
                                !.history_at_start = history, !.ws_at_start = ws]]
    /\ trace' = [trace EXCEPT ![g] = <<>>]
    /\ UNCHANGED <<history, init_data, tools, initPc, ws, nSandboxes, nItems, nEntries, initBy, clients>>

(***************************************************************************)
(* handler, case "user": creates the generator; its first run goes up to   *)
(* the yield of update_in_progress (agent.py line 180).                    *)
(***************************************************************************)
StartCycle(g, fb) ==
    /\ Free(g)
    /\ cycles < MaxCycles
    /\ cycles' = cycles + 1
    /\ gens' = [gens EXCEPT ![g] =
                  [Fresh EXCEPT !.pc = "started", !.n = cycles + 1, !.feedback = fb,
                                !.history_at_start = history, !.ws_at_start = ws]]
    /\ trace' = [trace EXCEPT ![g] =
                  <<Emit(Message("update_in_progress", {}, Uuid(cycles + 1, "in_progress")))>>]
    /\ UNCHANGED <<history, init_data, tools, initPc, ws, nSandboxes, nItems, nEntries, initBy, clients>>

(***************************************************************************)
(* line 184, the call: self.init_data["sandbox_id"] raises KeyError when   *)
(* no init has completed; otherwise the load_code call is issued and the   *)
(* generator awaits it.                                                    *)
(***************************************************************************)
CallLoad(g) ==
    /\ gens[g].pc = "started"
    /\ IF init_data = 0
       THEN /\ gens' = [gens EXCEPT ![g] = [@ EXCEPT !.pc = "failed", !.error = "KeyError"]]
            /\ UNCHANGED trace
       ELSE /\ gens' = [gens EXCEPT ![g].pc = "loading"]
            /\ trace' = Record(g, <<Call("load", init_data, <<>>)>>)
    /\ UNCHANGED <<history, init_data, tools, initPc, ws, nSandboxes, cycles, nItems, nEntries, initBy, clients>>

\* Agent.get_history: one ConvoMessage(role, content) per turn, in order
GetHistory(h) == [i \in 1 .. Len(h) |-> [role |-> h[i].role, content |-> h[i].content]]

\* lines 187-189: the snapshot as a list of {path, content}
CodeFiles(code_map) == {[path |-> p, content |-> code_map[p]] : p \in DOMAIN code_map}

\* faulty variant of LoadReturn: the snapshot is the one of the new sandbox, kept
\* from the first load
LoadReturnCached(g) ==
    /\ gens[g].pc = "loading"
    /\ LET code_map == LoadCode(Template)
           h == GetHistory(history)
       IN /\ gens' = [gens EXCEPT ![g] =
                        [@ EXCEPT !.pc = "stream", !.code_map = code_map, !.history = h,
                                  !.sent_plan = FALSE, !.new_code_map = <<>>]]
          /\ trace' = Record(g, <<Call("stream", 0,
                                       [history |-> h, feedback |-> gens[g].feedback,
                                        code_files |-> CodeFiles(code_map)])>>)
    /\ UNCHANGED <<history, init_data, tools, initPc, ws, nSandboxes, cycles, nItems, nEntries, initBy, clients>>

(***************************************************************************)
(* line 184, the return, and lines 187-206: the snapshot, the history as   *)
(* it is now, the stream opened with them, the empty pending edit set.     *)
(* package.json, which is read and passed on unchanged, is not modelled.   *)
(***************************************************************************)
LoadReturn(g) ==
    /\ gens[g].pc = "loading"
    /\ LET sid == trace[g][Len(trace[g])].sandbox_id
           code_map == LoadCode(ws[sid])
           h == GetHistory(history)
       IN /\ gens' = [gens EXCEPT ![g] =
                        [@ EXCEPT !.pc = "stream", !.code_map = code_map, !.history = h,
                                  !.sent_plan = FALSE, !.new_code_map = <<>>]]
          /\ trace' = Record(g, <<Call("stream", 0,
                                       [history |-> h, feedback |-> gens[g].feedback,
                                        code_files |-> CodeFiles(code_map)])>>)
    /\ UNCHANGED <<history, init_data, tools, initPc, ws, nSandboxes, cycles, nItems, nEntries, initBy, clients>>

\* faulty variant of LoadFail: the failure is reported as the final plan before it is raised
LoadFailReported(g) ==
    /\ gens[g].pc = "loading"
    /\ gens' = [gens EXCEPT ![g] = [@ EXCEPT !.pc = "failed", !.error = "LoadError"]]
    /\ trace' = Record(g, <<Emit(Message("agent_final", Text("Plan"),
                                         Uuid(gens[g].n, "plan_msg_id")))>>)
    /\ UNCHANGED <<history, init_data, tools, initPc, ws, nSandboxes, cycles, nItems, nEntries, initBy, clients>>

\* the load call fails (NotFoundError, TransientError): the exception leaves the generator
LoadFail(g) ==
    /\ gens[g].pc = "loading"
    /\ gens' = [gens EXCEPT ![g] = [@ EXCEPT !.pc = "failed", !.error = "LoadError"]]
    /\ UNCHANGED <<history, init_data, tools, initPc, trace, ws, nSandboxes, cycles, nItems, nEntries, initBy, clients>>

\* where the generator is after the plan part of an item, or after a file of it
AfterFile(partial, fidx) == IF fidx > Len(partial.files) THEN "stream" ELSE "files"

\* faulty variant of PlanEnvelope: agent_final for every Complete item
PlanEnvelopeEveryComplete(partial, sent_plan, n) ==
    IF partial.state # "Complete" /\ ~sent_plan
    THEN <<Emit(Message("agent_partial", Text(partial.value), Uuid(n, "plan_msg_id")))>>
    ELSE IF partial.state = "Complete"
    THEN <<Emit(Message("agent_final", Text(partial.value), Uuid(n, "plan_msg_id")))>>
    ELSE <<>>

\* faulty variant of PlanEnvelope: agent_partial does not look at sent_plan
PlanEnvelopePartialAfterFinal(partial, sent_plan, n) ==
    IF partial.state # "Complete"
    THEN <<Emit(Message("agent_partial", Text(partial.value), Uuid(n, "plan_msg_id")))>>
    ELSE IF partial.state = "Complete" /\ ~sent_plan
    THEN <<Emit(Message("agent_final", Text(partial.value), Uuid(n, "plan_msg_id")))>>
    ELSE <<>>

\* lines 211-224: the plan envelope of an item, if any
PlanEnvelope(partial, sent_plan, n) ==
    IF partial.state # "Complete" /\ ~sent_plan
    THEN <<Emit(Message("agent_partial", Text(partial.value), Uuid(n, "plan_msg_id")))>>
    ELSE IF partial.state = "Complete" /\ ~sent_plan
    THEN <<Emit(Message("agent_final", Text(partial.value), Uuid(n, "plan_msg_id")))>>
    ELSE <<>>

\* faulty variant of FinalYielded: the first item is taken for the completed plan
FinalYieldedFirstItem(partial, sent_plan) == ~sent_plan

\* line 219: the generator is suspended at the yield of agent_final
FinalYielded(partial, sent_plan) == partial.state = "Complete" /\ ~sent_plan

Delivered(g) == SelectSeq(trace[g], IsItem)

\* faulty variant of NextItem: the loop over the files of an item comes before
\* its plan envelope
NextItemFilesFirst(g, p) ==
    /\ gens[g].pc = "stream"
    /\ nItems < MaxItems
    /\ nEntries + Len(p.files) <= MaxFiles
    /\ nItems' = nItems + 1
    /\ nEntries' = nEntries + Len(p.files)
    /\ gens' = [gens EXCEPT ![g] =
                  [@ EXCEPT !.partial = [p EXCEPT !.files = <<>>], !.fidx = 1,
                            !.pc = IF FinalYielded(p, gens[g].sent_plan)
                                   THEN "final_sent" ELSE "stream"]]
    /\ trace' = Record(g, <<Recv(p)>>
                          \o [i \in 1 .. Len(p.files) |->
                                 Emit(Message("update_file", Text(WorkingOn(p.files[i].path)),
                                              Uuid(gens[g].n, "file_msg_id")))]
                          \o PlanEnvelope(p, gens[g].sent_plan, gens[g].n))
    /\ UNCHANGED <<history, init_data, tools, initPc, ws, nSandboxes, cycles, initBy, clients>>

(***************************************************************************)
(* line 209: the stream delivers its next item; lines 211-224: the plan    *)
(* envelope is yielded.  nItems and nEntries only bound the exploration.   *)
(***************************************************************************)
NextItem(g, p) ==
    /\ gens[g].pc = "stream"
    /\ nItems < MaxItems
    /\ nEntries + Len(p.files) <= MaxFiles
    /\ nItems' = nItems + 1
    /\ nEntries' = nEntries + Len(p.files)
    /\ gens' = [gens EXCEPT ![g] =
                  [@ EXCEPT !.partial = p, !.fidx = 1,
                            !.pc = IF FinalYielded(p, gens[g].sent_plan)
                                   THEN "final_sent" ELSE AfterFile(p, 1)]]
    /\ trace' = Record(g, <<Recv(p)>> \o PlanEnvelope(p, gens[g].sent_plan, gens[g].n))
    /\ UNCHANGED <<history, init_data, tools, initPc, ws, nSandboxes, cycles, initBy, clients>>

\* faulty variant of AddToHistory: the list is assigned, not appended to
AddToHistoryReplaces(h, user_feedback, agent_plan) ==
    <<[role |-> "user", content |-> user_feedback],
      [role |-> "assistant", content |-> agent_plan]>>

\* Agent.add_to_history (lines 145-158): both appends, no await between them
AddToHistory(h, user_feedback, agent_plan) ==
    h \o <<[role |-> "user", content |-> user_feedback],
           [role |-> "assistant", content |-> agent_plan]>>

\* faulty variant of AfterFinal: the generator can be suspended between the two appends
AfterFinalTwoSteps(g) ==
    \/ /\ gens[g].pc = "final_sent"
       /\ history' = Append(history, [role |-> "user", content |-> gens[g].feedback])
       /\ gens' = [gens EXCEPT ![g].pc = "final_half"]
       /\ UNCHANGED <<init_data, tools, initPc, trace, ws, nSandboxes, cycles, nItems, nEntries, initBy, clients>>
    \/ /\ gens[g].pc = "final_half"
       /\ history' = Append(history, [role |-> "assistant", content |-> gens[g].partial.value])
       /\ gens' = [gens EXCEPT ![g] =
                     [@ EXCEPT !.sent_plan = TRUE, !.pc = AfterFile(gens[g].partial, 1)]]
       /\ UNCHANGED <<init_data, tools, initPc, trace, ws, nSandboxes, cycles, nItems, nEntries, initBy, clients>>

\* lines 227-228: resumed after the yield of agent_final
AfterFinal(g) ==
    /\ gens[g].pc = "final_sent"
    /\ history' = AddToHistory(history, gens[g].feedback, gens[g].partial.value)
    /\ gens' = [gens EXCEPT ![g] =
                  [@ EXCEPT !.sent_plan = TRUE, !.pc = AfterFile(gens[g].partial, 1)]]
    /\ UNCHANGED <<init_data, tools, initPc, trace, ws, nSandboxes, cycles, nItems, nEntries, initBy, clients>>

\* faulty variant of FileEnvelope: a notification for every file entry
FileEnvelopeEveryEntry(new_code_map, file, n) ==
    <<Emit(Message("update_file", Text(WorkingOn(file.path)), Uuid(n, "file_msg_id")))>>

\* lines 232-238: the update_file envelope of a file entry, if any
FileEnvelope(new_code_map, file, n) ==
    IF file.path \notin Keys(new_code_map)
    THEN <<Emit(Message("update_file", Text(WorkingOn(file.path)), Uuid(n, "file_msg_id")))>>
    ELSE <<>>

\* lines 232 and 240: the pending edit set after a file entry
RecordFile(new_code_map, file) ==
    IF file.path \notin Keys(new_code_map)
    THEN Append(new_code_map, [path |-> file.path, content |-> file.content])
    ELSE new_code_map

\* lines 231-240: one entry of partial.files.  The yield of line 234 and the
\* assignment of line 240, which runs when the generator is resumed, are one step:
\* new_code_map is local and nothing reads it in between.
FileStep(g) ==
    /\ gens[g].pc = "files"
    /\ LET file == gens[g].partial.files[gens[g].fidx]
       IN /\ gens' = [gens EXCEPT ![g] =
                        [@ EXCEPT !.new_code_map = RecordFile(@, file),
                                  !.fidx = @ + 1,
                                  !.pc = AfterFile(gens[g].partial, gens[g].fidx + 1)]]
          /\ trace' = Record(g, FileEnvelope(gens[g].new_code_map, file, gens[g].n))
    /\ UNCHANGED <<history, init_data, tools, initPc, ws, nSandboxes, cycles, nItems, nEntries, initBy, clients>>

\* faulty variant of StreamFail: the pending edit set is flushed before the error is raised
StreamFailFlushes(g) ==
    /\ gens[g].pc = "stream"
    /\ gens' = [gens EXCEPT ![g] = [@ EXCEPT !.pc = "failed", !.error = "GenerationError"]]
    /\ ws' = [ws EXCEPT ![init_data] = EditCode(@, gens[g].new_code_map)]
    /\ UNCHANGED <<history, init_data, tools, initPc, trace, nSandboxes, cycles, nItems, nEntries, initBy, clients>>

\* the stream raises (GenerationError) when it is opened or after some items
StreamFail(g) ==
    /\ gens[g].pc = "stream"
    /\ gens' = [gens EXCEPT ![g] = [@ EXCEPT !.pc = "failed", !.error = "GenerationError"]]
    /\ UNCHANGED <<history, init_data, tools, initPc, trace, ws, nSandboxes, cycles, nItems, nEntries, initBy, clients>>

\* faulty variant of StreamEnd: the commit is inside the loop over the stream
StreamEndInsideLoop(g) ==
    /\ gens[g].pc = "stream"
    /\ trace[g][Len(trace[g])].kind # "call"
    /\ trace' = Record(g, <<Call("write", init_data, gens[g].new_code_map)>>)
    /\ UNCHANGED <<history, init_data, tools, initPc, gens, ws, nSandboxes, cycles, nItems, nEntries, initBy, clients>>

\* faulty variant of StreamEnd: an empty edit set is not committed
StreamEndSkipsEmpty(g) ==
    /\ gens[g].pc = "stream"
    /\ IF gens[g].new_code_map = <<>>
       THEN /\ gens' = [gens EXCEPT ![g].pc = "done"]
            /\ trace' = Record(g, <<Emit(Message("update_completed", {},
                                                 Uuid(gens[g].n, "completed")))>>)
       ELSE /\ gens' = [gens EXCEPT ![g].pc = "writing"]
            /\ trace' = Record(g, <<Call("write", init_data, gens[g].new_code_map)>>)
    /\ UNCHANGED <<history, init_data, tools, initPc, ws, nSandboxes, cycles, nItems, nEntries, initBy, clients>>

\* faulty variant of StreamEnd: the commit waits for a Complete plan
StreamEndNeedsPlan(g) ==
    /\ gens[g].pc = "stream"
    /\ gens[g].sent_plan
    /\ gens' = [gens EXCEPT ![g].pc = "writing"]
    /\ trace' = Record(g, <<Call("write", init_data, gens[g].new_code_map)>>)
    /\ UNCHANGED <<history, init_data, tools, initPc, ws, nSandboxes, cycles, nItems, nEntries, initBy, clients>>

\* the stream is exhausted; line 244, the call of edit_code
StreamEnd(g) ==
    /\ gens[g].pc = "stream"
    /\ gens' = [gens EXCEPT ![g].pc = "writing"]
    /\ trace' = Record(g, <<Call("write", init_data, gens[g].new_code_map)>>)
    /\ UNCHANGED <<history, init_data, tools, initPc, ws, nSandboxes, cycles, nItems, nEntries, initBy, clients>>

\* line 244, the return, and line 247
WriteReturn(g) ==
    /\ gens[g].pc = "writing"
    /\ LET call == trace[g][Len(trace[g])]
       IN ws' = [ws EXCEPT ![call.sandbox_id] = EditCode(@, call.arg)]
    /\ gens' = [gens EXCEPT ![g].pc = "done"]
    /\ trace' = Record(g, <<Emit(Message("update_completed", {},
                                         Uuid(gens[g].n, "completed")))>>)
    /\ UNCHANGED <<history, init_data, tools, initPc, nSandboxes, cycles, nItems, nEntries, initBy, clients>>

\* faulty variant of WriteFail: update_completed is yielded although the write failed
WriteFailCompleted(g, k) ==
    /\ gens[g].pc = "writing"
    /\ LET call == trace[g][Len(trace[g])]
       IN /\ k <= Len(call.arg)
          /\ ws' = [ws EXCEPT ![call.sandbox_id] = EditCode(@, SubSeq(call.arg, 1, k))]
    /\ gens' = [gens EXCEPT ![g] = [@ EXCEPT !.pc = "failed", !.error = "WriteError"]]
    /\ trace' = Record(g, <<Emit(Message("update_completed", {},
                                         Uuid(gens[g].n, "completed")))>>)
    /\ UNCHANGED <<history, init_data, tools, initPc, nSandboxes, cycles, nItems, nEntries, initBy, clients>>

\* edit_code fails after k uploads (WriteError): the exception leaves the generator
WriteFail(g, k) ==
    /\ gens[g].pc = "writing"
    /\ LET call == trace[g][Len(trace[g])]
       IN /\ k <= Len(call.arg)
          /\ ws' = [ws EXCEPT ![call.sandbox_id] = EditCode(@, SubSeq(call.arg, 1, k))]
    /\ gens' = [gens EXCEPT ![g] = [@ EXCEPT !.pc = "failed", !.error = "WriteError"]]
    /\ UNCHANGED <<history, init_data, tools, initPc, trace, nSandboxes, cycles, nItems, nEntries, initBy, clients>>

(***************************************************************************)
(* handler, case "init": Agent.init awaits load_tools, then                *)
(* create_app_environment.                                                 *)
(***************************************************************************)
InitLoadTools(s) ==
    /\ initPc = "idle"
    /\ nSandboxes < MaxSandboxes
    /\ tools' = ToolList
    /\ initPc' = "create_env"
    /\ initBy' = s
    /\ UNCHANGED <<history, init_data, gens, trace, ws, nSandboxes, cycles, nItems, nEntries, clients>>

\* line 116 and line 276: the new sandbox id is stored in the Agent and returned
InitCreateEnv ==
    /\ initPc = "create_env"
    /\ nSandboxes' = nSandboxes + 1
    /\ ws' = [ws EXCEPT ![nSandboxes + 1] = Template]
    /\ init_data' = nSandboxes + 1
    /\ initPc' = "idle"
    /\ initBy' = 0
    /\ clients' = [clients EXCEPT ![initBy] =
                     [sandbox_id |-> nSandboxes + 1, request |-> "init", asked |-> 0,
                      result |-> Result("init", nSandboxes + 1), failed |-> {}]]
    /\ UNCHANGED <<history, tools, gens, trace, cycles, nItems, nEntries>>

\* load_tools or create_app_environment fails: the exception leaves handler
InitFail ==
    /\ initPc # "idle"
    /\ initPc' = "idle"
    /\ initBy' = 0
    /\ clients' = [clients EXCEPT ![initBy] =
                     [@ EXCEPT !.request = "init", !.asked = 0, !.result = Raised("InitError"),
                               !.failed = {}]]
    /\ UNCHANGED <<history, init_data, tools, gens, trace, ws, nSandboxes, cycles, nItems, nEntries>>

(***************************************************************************)
(* handler, lines 271-284: the branch an envelope type is dispatched to.   *)
(* "missing" is an envelope without a type, for which msg.get gives None.  *)
(***************************************************************************)
EnvelopeTypes ==
    {"init", "user", "agent_partial", "agent_final", "load_code", "edit_code",
     "get_code_for_display", "code_display_response", "update_in_progress",
     "update_file", "update_completed", "missing", "ping"}

Route(type) ==
    CASE type = "user" -> "send_feedback"
      [] type = "init" -> "init"
      [] type = "load_code" -> "load_code"
      [] type = "get_code_for_display" -> "get_code_for_display"
      [] OTHER -> "default"

Answer(s, type, sid, result) ==
    clients' = [clients EXCEPT ![s] =
                  [@ EXCEPT !.request = type, !.asked = sid, !.result = result, !.failed = {}]]

\* a sandbox with this identifier has been created
Exists(sid) == sid \in 1 .. nSandboxes

\* faulty variant of HandleLoadCode: the load puts the sandbox back to the template
HandleLoadCodeResets(s, sid) ==
    /\ Exists(sid)
    /\ Answer(s, "load_code", sid, Result("load_code", LoadCode(ws[sid])))
    /\ ws' = [ws EXCEPT ![sid] = Template]
    /\ UNCHANGED <<history, init_data, tools, initPc, gens, trace, nSandboxes, cycles,
                   nItems, nEntries, initBy>>

\* handler, case "load_code" (lines 277-279); the tool runs against the sandbox
\* the request names.  package.json, returned beside the file map, is not modelled.
HandleLoadCode(s, sid) ==
    /\ Exists(sid)
    /\ Answer(s, "load_code", sid, Result("load_code", LoadCode(ws[sid])))
    /\ UNCHANGED <<history, init_data, tools, initPc, gens, trace, ws, nSandboxes, cycles,
                   nItems, nEntries, initBy>>

(***************************************************************************)
(* tools.get_code_for_display.  The sandbox is walked from /app/src        *)
(* ("src"); every remote read may fail: the listing of a directory, the    *)
(* download or the decoding of a file, the download of /app/package.json.  *)
(* failed is the set of the reads that fail in one call, named by the      *)
(* directory, by the file, or by "package.json".                           *)
(***************************************************************************)
MaxFailures == 2    \* remote reads that fail inside one get_code_for_display call

\* line 157: the extensions that are displayed
SafeList == {".tsx", ".ts", ".jsx", ".js", ".css", ".json", ".html"}

\* Path.suffix, of a path of the sandbox and of a key of the returned mapping
Suffix(p) ==
    CASE p \in {"src/App.tsx", "App.tsx"} -> ".tsx"
      [] p \in {"src/index.css", "index.css"} -> ".css"
      [] p \in {"src/logo.svg", "logo.svg"} -> ".svg"
      [] p \in {"src/components/Nav.tsx", "components/Nav.tsx"} -> ".tsx"
      [] p = "package.json" -> ".json"

Dirs == {"src", "src/components"}

\* the directories _process_directory lists on its way to a file
Ancestors(p) ==
    IF p = "src/components/Nav.tsx" THEN {"src", "src/components"} ELSE {"src"}

\* line 164: str(full_path).replace(DEFAULT_CODE_PATH + "/", "")
RelativePath(p) ==
    CASE p = "src/App.tsx" -> "App.tsx"
      [] p = "src/index.css" -> "index.css"
      [] p = "src/logo.svg" -> "logo.svg"
      [] p = "src/components/Nav.tsx" -> "components/Nav.tsx"

\* the content of /app/package.json, which no request of this model changes
PackageJson == "{}"

Failable == Dirs \cup SandboxPaths \cup {"package.json"}
FailureSets == {f \in SUBSET Failable : Cardinality(f) <= MaxFailures}

\* faulty variant of Displayed: every file that can be read is displayed
DisplayedUnfiltered(files, failed) ==
    {p \in SandboxPaths : /\ files[p] # Absent
                          /\ Ancestors(p) \cap failed = {}
                          /\ p \notin failed}

\* lines 147-169: the files whose content reaches file_map.  A listing that fails
\* is caught in the call for that directory (line 168), a read that fails is
\* caught for that file (line 166); the walk goes on with the next entry.
Displayed(files, failed) ==
    {p \in SandboxPaths : /\ files[p] # Absent
                          /\ Ancestors(p) \cap failed = {}
                          /\ Suffix(p) \in SafeList
                          /\ p \notin failed}

\* lines 145-181: file_map; package.json is stored last, under its own key
DisplayCode(files, failed) ==
    LET shown == Displayed(files, failed)
        keys == {RelativePath(p) : p \in shown}
               \cup (IF "package.json" \in failed THEN {} ELSE {"package.json"})
    IN [k \in keys |->
          IF k = "package.json" /\ "package.json" \notin failed THEN PackageJson
          ELSE files[CHOOSE p \in shown : RelativePath(p) = k]]

\* handler, case "get_code_for_display" (lines 280-282): the dict of lines 183-186
\* whatever reads failed
HandleGetCodeForDisplay(s, sid, failed) ==
    /\ Exists(sid)
    /\ clients' = [clients EXCEPT ![s] =
                     [@ EXCEPT !.request = "get_code_for_display", !.asked = sid,
                               !.failed = failed,
                               !.result = Result("code_display_response",
                                                 [sandbox_id |-> sid,
                                                  files |-> DisplayCode(ws[sid], failed)])]]
    /\ UNCHANGED <<history, init_data, tools, initPc, gens, trace, ws, nSandboxes, cycles,
                   nItems, nEntries, initBy>>

\* the tool call of a load_code or get_code_for_display request fails (the sandbox
\* is not there, the transport fails): the exception leaves handler
HandleToolFail(s, type, sid) ==
    /\ Route(type) \in {"load_code", "get_code_for_display"}
    /\ Answer(s, type, sid, Raised("ToolError"))
    /\ UNCHANGED <<history, init_data, tools, initPc, gens, trace, ws, nSandboxes, cycles,
                   nItems, nEntries, initBy>>

\* faulty variant of HandleOther: an unknown type is an error
HandleOtherRaises(s, type) ==
    /\ Route(type) = "default"
    /\ Answer(s, type, 0, Raised("ValueError"))
    /\ UNCHANGED <<history, init_data, tools, initPc, gens, trace, ws, nSandboxes, cycles,
                   nItems, nEntries, initBy>>

\* handler, case _ (lines 283-284)
HandleOther(s, type) ==
    /\ Route(type) = "default"
    /\ Answer(s, type, 0, EmptyDict)
    /\ UNCHANGED <<history, init_data, tools, initPc, gens, trace, ws, nSandboxes, cycles,
                   nItems, nEntries, initBy>>

(***************************************************************************)
(* One session that follows the protocol of one cycle at a time: a user    *)
(* request is sent only when no cycle is in flight.  init requests arrive  *)
(* at any time.                                                            *)
(***************************************************************************)
NoCycleInFlight == \A g \in Gens : Free(g)
NoRequestInFlight == NoCycleInFlight /\ initPc = "idle"

Next ==
    \/ \E fb \in Feedbacks : NoRequestInFlight /\ StartCycle(1, fb)
    \/ \E g \in Gens : CallLoad(g)
    \/ \E g \in Gens : LoadReturn(g)
    \/ \E g \in Gens : LoadFail(g)
    \/ \E g \in Gens, p \in Partials : NextItem(g, p)
    \/ \E g \in Gens : AfterFinal(g)
    \/ \E g \in Gens : FileStep(g)
    \/ \E g \in Gens : StreamFail(g)
    \/ \E g \in Gens : StreamEnd(g)
    \/ \E g \in Gens : WriteReturn(g)
    \/ \E g \in Gens, k \in 0 .. MaxItems * MaxFiles : WriteFail(g, k)
    \/ NoCycleInFlight /\ InitLoadTools(1)
    \/ InitCreateEnv
    \/ InitFail

Spec == Init /\ [][Next]_vars

(***************************************************************************)
(* handler as it is deployed: one Agent (context.on_start_value, line 268) *)
(* serves every request of every session, up to 1000 at a time (line 264), *)
(* and nothing in handler or send_feedback waits for a cycle in flight.    *)
(* Requests of two sessions arrive at any time; the steps of the cycles    *)
(* and of the init request interleave at their yields and awaits.  The     *)
(* user of session 1 always asks for the one thing, the user of session 2  *)
(* for the other; generator g is the g-th one created; the stream items    *)
(* come from a smaller set: a growing plan without files, or the completed *)
(* plan with one file.                                                     *)
(***************************************************************************)
FeedbackOf(s) == IF s = 1 THEN "make it blue" ELSE "add a page"

SessionOf(g) == CHOOSE s \in Sessions : FeedbackOf(s) = gens[g].feedback

ConcPartials ==
    {p \in Partials :
        /\ Len(p.files) = (IF p.state = "Complete" THEN 1 ELSE 0)
        /\ p.value = (IF p.state = "Complete" THEN "Plan done" ELSE "Plan")
        /\ \A i \in 1 .. Len(p.files) : p.files[i] = [path |-> "src/App.tsx", content |-> "v1"]}

NextConc ==
    \/ \E s \in Sessions : cycles + 1 \in Gens /\ StartCycle(cycles + 1, FeedbackOf(s))
    \/ \E g \in Gens : CallLoad(g)
    \/ \E g \in Gens : LoadReturn(g)
    \/ \E g \in Gens : LoadFail(g)
    \/ \E g \in Gens, p \in ConcPartials : NextItem(g, p)
    \/ \E g \in Gens : AfterFinal(g)
    \/ \E g \in Gens : FileStep(g)
    \/ \E g \in Gens : StreamFail(g)
    \/ \E g \in Gens : StreamEnd(g)
    \/ \E g \in Gens : WriteReturn(g)
    \/ \E g \in Gens, k \in 0 .. MaxItems * MaxFiles : WriteFail(g, k)
    \/ \E s \in Sessions : InitLoadTools(s)
    \/ InitCreateEnv
    \/ InitFail

SpecConc == Init /\ [][NextConc]_vars

(***************************************************************************)
(* handler with requests of every type: besides init and user requests,    *)
(* a session sends load_code and get_code_for_display requests for any     *)
(* sandbox id and envelopes of types that handler has no case for.         *)
(* Cycles run one at a time, with the stream items of SpecConc; the other  *)
(* requests are answered at any time.                                      *)
(***************************************************************************)
OtherTypes == {"edit_code", "agent_final", "missing"}

NextRequests ==
    \/ NoRequestInFlight /\ StartCycle(1, FeedbackOf(1))
    \/ \E g \in Gens : CallLoad(g)
    \/ \E g \in Gens : LoadReturn(g)
    \/ \E g \in Gens : LoadFail(g)
    \/ \E g \in Gens, p \in ConcPartials : NextItem(g, p)
    \/ \E g \in Gens : AfterFinal(g)
    \/ \E g \in Gens : FileStep(g)
    \/ \E g \in Gens : StreamFail(g)
    \/ \E g \in Gens : StreamEnd(g)
    \/ \E g \in Gens : WriteReturn(g)
    \/ \E g \in Gens, k \in 0 .. MaxItems * MaxFiles : WriteFail(g, k)
    \/ NoCycleInFlight /\ InitLoadTools(1)
    \/ InitCreateEnv
    \/ InitFail
    \/ \E sid \in Sandboxes : HandleLoadCode(1, sid)
    \/ \E sid \in Sandboxes, failed \in FailureSets :
           HandleGetCodeForDisplay(1, sid, failed)
    \/ \E type \in {"load_code", "get_code_for_display"}, sid \in Sandboxes :
           HandleToolFail(1, type, sid)
    \/ \E type \in OtherTypes : HandleOther(1, type)

SpecRequests == Init /\ [][NextRequests]_vars

(***************************************************************************)
(* One session whose cycles run one at a time, with the stream items of    *)
(* SpecConc and init requests at any time, under the scheduling the cycle  *)
(* relies on.  The consumer keeps pulling, so a generator that can run on  *)
(* from a yield does (CallLoad, AfterFinal, FileStep); an awaited remote   *)
(* call that does not fail returns (LoadReturn, WriteReturn); a stream     *)
(* that neither yields an item nor fails ends (StreamEnd).  Nothing makes  *)
(* a request arrive, a call fail or the stream yield one more item.        *)
(***************************************************************************)
NextFair ==
    \/ NoRequestInFlight /\ StartCycle(1, FeedbackOf(1))
    \/ \E g \in Gens : CallLoad(g)
    \/ \E g \in Gens : LoadReturn(g)
    \/ \E g \in Gens : LoadFail(g)
    \/ \E g \in Gens, p \in ConcPartials : NextItem(g, p)
    \/ \E g \in Gens : AfterFinal(g)
    \/ \E g \in Gens : FileStep(g)
    \/ \E g \in Gens : StreamFail(g)
    \/ \E g \in Gens : StreamEnd(g)
    \/ \E g \in Gens : WriteReturn(g)
    \/ \E g \in Gens, k \in 0 .. MaxItems * MaxFiles : WriteFail(g, k)
    \/ InitLoadTools(1)
    \/ InitCreateEnv
    \/ InitFail

Fairness ==
    \A g \in Gens :
        /\ WF_vars(CallLoad(g))
        /\ WF_vars(LoadReturn(g))
        /\ WF_vars(AfterFinal(g))
        /\ WF_vars(FileStep(g))
        /\ WF_vars(StreamEnd(g))
        /\ WF_vars(WriteReturn(g))

SpecFair == Init /\ [][NextFair]_vars /\ Fairness

(***************************************************************************)
(* What a cycle did, read from its trace.                                  *)
(***************************************************************************)
Events(g, Test(_)) == SelectSeq(trace[g], Test)

\* the envelopes generator g has yielded, in order
Envelopes(g) == [i \in 1 .. Len(Events(g, IsEmit)) |-> Events(g, IsEmit)[i].msg]

\* the stream items generator g has received, in order
Items(g) == [i \in 1 .. Len(Delivered(g)) |-> Delivered(g)[i].partial]

IsLoadCall(e) == IsCall(e) /\ e.op = "load"
IsStreamCall(e) == IsCall(e) /\ e.op = "stream"
IsWriteCall(e) == IsCall(e) /\ e.op = "write"

OfType(envs, type) == {i \in 1 .. Len(envs) : envs[i].type = type}

CompleteItems(items) == {i \in 1 .. Len(items) : items[i].state = "Complete"}

Min(S) == CHOOSE x \in S : \A y \in S : x <= y

Started(g) == gens[g].pc # "idle"

InStream(g) == gens[g].pc \in {"stream", "final_sent", "files"}

RECURSIVE AllFiles(_)
AllFiles(items) == IF items = <<>> THEN <<>> ELSE Head(items).files \o AllFiles(Tail(items))

\* the file entries generator g has gone through, in order: those of the items
\* before the current one, and those of the current item before position fidx
Processed(g) ==
    LET items == Items(g)
        n == Len(items)
    IN IF n = 0 THEN <<>>
       ELSE AllFiles(SubSeq(items, 1, n - 1)) \o SubSeq(items[n].files, 1, gens[g].fidx - 1)

PathsOf(entries) == {entries[i].path : i \in 1 .. Len(entries)}

(***************************************************************************)
(* C1: in every cycle at most one agent_final envelope is emitted; one is  *)
(* emitted if and only if some delivered item has plan.state = "Complete", *)
(* and it carries the plan value of the first such item.                   *)
(***************************************************************************)
C1_OneFinal ==
    \A g \in Gens :
        LET envs == Envelopes(g)
            items == Items(g)
            finals == OfType(envs, "agent_final")
            complete == CompleteItems(items)
        IN /\ Cardinality(finals) <= 1
           /\ (finals # {}) <=> (complete # {})
           /\ \A i \in finals : envs[i].data = Text(items[Min(complete)].value)

\* two Complete items with different plan values have been delivered
C1_Witness ==
    \E g \in Gens :
        LET items == Items(g)
        IN /\ Len(items) = 2
           /\ CompleteItems(items) = {1, 2}
           /\ items[1].value # items[2].value
           /\ OfType(Envelopes(g), "agent_final") # {}

(***************************************************************************)
(* C2: in every cycle the number of update_file envelopes equals the       *)
(* number of distinct paths among the file entries processed so far, one   *)
(* envelope per path: a path that comes again, in a later item or in the   *)
(* same item, gets no second envelope.                                     *)
(***************************************************************************)
C2_OneUpdatePerPath ==
    \A g \in Gens :
        LET envs == Envelopes(g)
            updates == OfType(envs, "update_file")
            paths == PathsOf(Processed(g))
        IN /\ Cardinality(updates) = Cardinality(paths)
           /\ {envs[i].data : i \in updates} = {Text(WorkingOn(p)) : p \in paths}

\* the same path has been processed twice, in two items
C2_Witness ==
    \E g \in Gens :
        LET items == Items(g)
        IN /\ Len(items) = 2
           /\ Len(items[1].files) = 1
           /\ Len(Processed(g)) = 2
           /\ Cardinality(PathsOf(Processed(g))) = 1
           /\ Cardinality(OfType(Envelopes(g), "update_file")) = 1

Max(S) == CHOOSE x \in S : \A y \in S : x >= y

\* the content of the last entry for path
LastContent(entries, path) ==
    entries[Max({i \in 1 .. Len(entries) : entries[i].path = path})].content

WriteCalls(g) == Events(g, IsWriteCall)

(***************************************************************************)
(* C3: when the stream of a cycle is exhausted without error, the write    *)
(* call gets exactly the distinct paths seen, each with the content of     *)
(* the last stream entry for that path.                                    *)
(***************************************************************************)
C3_LatestContentWritten ==
    \A g \in Gens :
        LET entries == AllFiles(Items(g))
        IN \A i \in 1 .. Len(WriteCalls(g)) :
               LET code_map == WriteCalls(g)[i].arg
               IN /\ PathsOf(code_map) = PathsOf(entries)
                  /\ \A j \in 1 .. Len(code_map) :
                         code_map[j].content = LastContent(entries, code_map[j].path)

(***************************************************************************)
(* C4: a cycle issues at most one write call; it has issued exactly one    *)
(* when its stream was exhausted without error, none while it is loading   *)
(* or going through the stream; the call comes after every stream item     *)
(* and every plan and file envelope, with the entries of all the items,    *)
(* and before update_completed.                                            *)
(***************************************************************************)
C4_OneWriteAfterStream ==
    \A g \in Gens :
        LET t == trace[g]
            W == {i \in 1 .. Len(t) : IsWriteCall(t[i])}
        IN /\ Cardinality(W) <= 1
           /\ (gens[g].pc \in {"writing", "done"} \/ gens[g].error = "WriteError")
                  => Cardinality(W) = 1
           /\ (gens[g].pc \in {"started", "loading"} \/ InStream(g)) => W = {}
           /\ gens[g].pc = "done" => "update_completed" \in {Envelopes(g)[i].type : i \in 1 .. Len(Envelopes(g))}
           /\ \A w \in W :
                  /\ \E i \in 1 .. w - 1 : IsStreamCall(t[i])
                  /\ PathsOf(t[w].arg) = PathsOf(AllFiles(Items(g)))
                  /\ \A i \in 1 .. Len(t) :
                         /\ IsItem(t[i]) => i < w
                         /\ IsEmit(t[i]) =>
                                IF t[i].msg.type = "update_completed" THEN i > w ELSE i < w

\* a cycle is done after two items with a file each
C4_Witness ==
    \E g \in Gens :
        /\ gens[g].pc = "done"
        /\ Len(Items(g)) = 2
        /\ Len(WriteCalls(g)) = 1
        /\ Len(WriteCalls(g)[1].arg) = 2

(***************************************************************************)
(* C5: the first thing a cycle does is to emit update_in_progress, before  *)
(* any call; update_completed, when emitted, is emitted once and nothing   *)
(* follows it.                                                             *)
(***************************************************************************)
C5_ProgressFirstCompletedLast ==
    \A g \in Gens :
        LET t == trace[g]
            envs == Envelopes(g)
            completed == OfType(envs, "update_completed")
        IN /\ Started(g) =>
                  /\ Len(t) >= 1
                  /\ IsEmit(t[1])
                  /\ t[1].msg.type = "update_in_progress"
           /\ OfType(envs, "update_in_progress") \subseteq {1}
           /\ completed # {} =>
                  /\ completed = {Len(envs)}
                  /\ IsEmit(t[Len(t)])
                  /\ gens[g].pc = "done"

\* a cycle is done and has emitted plan and file envelopes in between
C5_Witness ==
    \E g \in Gens :
        /\ gens[g].pc = "done"
        /\ Len(Envelopes(g)) >= 5
        /\ Envelopes(g)[Len(Envelopes(g))].type = "update_completed"

\* the sandboxes that existed when generator g was created are as they were then
WorkspaceUntouched(g) ==
    \A s \in Sandboxes :
        gens[g].ws_at_start[s] # [p \in SandboxPaths |-> Absent] => ws[s] = gens[g].ws_at_start[s]

(***************************************************************************)
(* C6: a cycle whose load or stream failed has issued no write call and    *)
(* has left the remote workspace as it was, whatever file entries it had   *)
(* seen; nor is anything written while the stream is being read.           *)
(***************************************************************************)
C6_NoWriteOnFailure ==
    \A g \in Gens :
        (gens[g].error \in {"KeyError", "LoadError", "GenerationError"} \/ InStream(g)) =>
            /\ WriteCalls(g) = <<>>
            /\ WorkspaceUntouched(g)

\* the stream failed after two file entries were recorded
C6_Witness ==
    \E g \in Gens :
        /\ gens[g].error = "GenerationError"
        /\ Len(gens[g].new_code_map) = 2
        /\ WriteCalls(g) = <<>>

(***************************************************************************)
(* C7: a cycle whose load failed has emitted update_in_progress and        *)
(* nothing else, has opened no stream, received no item, issued no write,  *)
(* left the history as it was, and has ended in failure.                   *)
(***************************************************************************)
C7_LoadFailure ==
    \A g \in Gens :
        gens[g].error \in {"KeyError", "LoadError"} =>
            /\ gens[g].pc = "failed"
            /\ Len(Envelopes(g)) = 1
            /\ Envelopes(g)[1].type = "update_in_progress"
            /\ Events(g, IsStreamCall) = <<>>
            /\ Items(g) = <<>>
            /\ WriteCalls(g) = <<>>
            /\ history = gens[g].history_at_start

\* the load call of a second cycle failed, after a first one extended the history
C7_Witness ==
    \E g \in Gens :
        /\ gens[g].error = "LoadError"
        /\ Len(Events(g, IsLoadCall)) = 1
        /\ history # <<>>

(***************************************************************************)
(* C8: a failed cycle has emitted no update_completed; when the write      *)
(* call failed, the exception left the generator, the write call is the    *)
(* last thing the cycle did and the only write call.                       *)
(***************************************************************************)
C8_NoCompletedOnFailure ==
    \A g \in Gens :
        /\ gens[g].pc = "failed" =>
               /\ gens[g].error # ""
               /\ OfType(Envelopes(g), "update_completed") = {}
        /\ gens[g].error = "WriteError" =>
               /\ gens[g].pc = "failed"
               /\ Len(WriteCalls(g)) = 1
               /\ IsWriteCall(trace[g][Len(trace[g])])

\* the write call failed after one of two uploads
C8_Witness ==
    \E g \in Gens :
        /\ gens[g].error = "WriteError"
        /\ Len(WriteCalls(g)[1].arg) = 2
        /\ \E s \in Sandboxes :
               ws[s] = EditCode(gens[g].ws_at_start[s], SubSeq(WriteCalls(g)[1].arg, 1, 1))

(***************************************************************************)
(* C9: a cycle that has emitted no agent_final has left the history as it  *)
(* was; one that has emitted agent_final has, once resumed after the       *)
(* yield, appended to the history as it was the two turns (user, its       *)
(* feedback), (assistant, the plan value of the envelope), and nothing     *)
(* else is ever changed.                                                   *)
(***************************************************************************)
C9_HistoryOnePair ==
    \A g \in Gens :
        Started(g) =>
            LET envs == Envelopes(g)
                finals == OfType(envs, "agent_final")
            IN /\ finals = {} => history = gens[g].history_at_start
               /\ \A i \in finals :
                      IF gens[g].pc = "final_sent"
                      THEN history = gens[g].history_at_start
                      ELSE \E v \in PlanValues :
                              /\ envs[i].data = Text(v)
                              /\ history = gens[g].history_at_start \o
                                     <<[role |-> "user", content |-> gens[g].feedback],
                                       [role |-> "assistant", content |-> v]>>

\* a second cycle has appended its pair after the pair of the first
C9_Witness ==
    \E g \in Gens :
        /\ Len(history) = 4
        /\ Len(gens[g].history_at_start) = 2
        /\ history[1].content # history[3].content

\* the stream of generator g is open and cannot have ended: it has delivered
\* nothing yet, or its last item is not Complete
StreamGoesOn(g) ==
    /\ gens[g].pc \in {"started", "loading"} \/ InStream(g)
    /\ Items(g) # <<>> => Items(g)[Len(Items(g))].state # "Complete"

(***************************************************************************)
(* C10, as claimed: while the stream of a cycle has not been exhausted,    *)
(* and when it has failed part-way, the history is as it was when the      *)
(* cycle began.                                                            *)
(***************************************************************************)
C10_UnchangedUntilExhausted ==
    \A g \in Gens :
        (StreamGoesOn(g) \/ gens[g].error = "GenerationError") =>
            history = gens[g].history_at_start

(***************************************************************************)
(* C10, amended: as long as the stream of a cycle has delivered no item    *)
(* with plan.state = "Complete", the history is as it was when the cycle   *)
(* began.                                                                  *)
(***************************************************************************)
C10_UnchangedBeforeComplete ==
    \A g \in Gens :
        (Started(g) /\ CompleteItems(Items(g)) = {}) =>
            history = gens[g].history_at_start

\* the stream of a second cycle failed after an item that was not Complete
C10_Witness ==
    \E g \in Gens :
        /\ gens[g].error = "GenerationError"
        /\ Len(Items(g)) = 1
        /\ CompleteItems(Items(g)) = {}
        /\ history # <<>>
        /\ history = gens[g].history_at_start

\* generator g is between its creation and its end
InFlight(g) == ~Free(g)

(***************************************************************************)
(* C11: sessions are independent.  When a cycle of session s issues its    *)
(* load call or its write call, the sandbox it names is the one the last   *)
(* init of session s itself returned, whatever init requests the other     *)
(* session made; and the history it passes to its stream holds no user     *)
(* turn of the other session.                                              *)
(***************************************************************************)
C11_SessionsIndependent ==
    [][\A g \in Gens :
          LET s == SessionOf(g)
          IN /\ (gens[g].pc = "started" /\ gens'[g].pc = "loading") =>
                    trace'[g][Len(trace'[g])].sandbox_id = clients[s].sandbox_id
             /\ (gens[g].pc = "stream" /\ gens'[g].pc = "writing") =>
                    trace'[g][Len(trace'[g])].sandbox_id = clients[s].sandbox_id
             /\ (gens[g].pc = "loading" /\ gens'[g].pc = "stream") =>
                    LET h == trace'[g][Len(trace'[g])].arg.history
                    IN \A i \in 1 .. Len(h) :
                           h[i].role = "user" => h[i].content = FeedbackOf(s)]_vars

(***************************************************************************)
(* C12: two cycles of one session are never in flight together.            *)
(***************************************************************************)
C12_OneCycleInFlight ==
    \A g, h \in Gens :
        (g # h /\ InFlight(g) /\ InFlight(h)) => SessionOf(g) # SessionOf(h)

\* the places of the plan envelopes among envs
PlanEnvelopes(envs) == OfType(envs, "agent_partial") \cup OfType(envs, "agent_final")

EnvelopeTypesOf(g) == [i \in 1 .. Len(Envelopes(g)) |-> Envelopes(g)[i].type]

\* the two turns of a cycle
TurnPair(feedback, plan) ==
    <<[role |-> "user", content |-> feedback], [role |-> "assistant", content |-> plan]>>

(***************************************************************************)
(* C14: a cycle whose stream ended and whose write returned has issued     *)
(* its write call and emitted update_completed whatever the stream held.   *)
(* With no file entry the write call got the empty edit set; with no       *)
(* Complete item there is no agent_final and the history is as it was;     *)
(* with the single item (Complete, v, no files) the envelopes are exactly  *)
(* update_in_progress, agent_final(v), update_completed and the one pair   *)
(* (user, feedback), (assistant, v) was appended.                          *)
(***************************************************************************)
C14_CommitWhateverTheStream ==
    \A g \in Gens :
        LET items == Items(g)
            envs == Envelopes(g)
        IN /\ gens[g].pc = "stream" => ENABLED StreamEnd(g)
           /\ gens[g].pc \in {"writing", "done"} =>
                  /\ Len(WriteCalls(g)) = 1
                  /\ AllFiles(items) = <<>> => WriteCalls(g)[1].arg = <<>>
           /\ gens[g].pc = "done" =>
                  /\ envs[Len(envs)].type = "update_completed"
                  /\ CompleteItems(items) = {} =>
                         /\ OfType(envs, "agent_final") = {}
                         /\ history = gens[g].history_at_start
                  /\ (Len(items) = 1 /\ items[1].state = "Complete" /\ items[1].files = <<>>) =>
                         /\ EnvelopeTypesOf(g) =
                                <<"update_in_progress", "agent_final", "update_completed">>
                         /\ envs[2].data = Text(items[1].value)
                         /\ history = gens[g].history_at_start \o
                                          TurnPair(gens[g].feedback, items[1].value)

\* a second cycle is done after the single item (Complete, v, no files)
C14_Witness ==
    \E g \in Gens :
        /\ gens[g].pc = "done"
        /\ Len(Items(g)) = 1
        /\ Items(g)[1].state = "Complete"
        /\ Items(g)[1].files = <<>>
        /\ gens[g].history_at_start # <<>>
        /\ WriteCalls(g)[1].arg = <<>>

\* the envelope types handler has a case for
KnownTypes == {"init", "user", "load_code", "get_code_for_display"}

(***************************************************************************)
(* C15: a step in which handler answers an envelope whose type is not      *)
(* init, user, load_code or get_code_for_display gives the empty result,   *)
(* raises nothing, and leaves the Agent (history, init_data, tools), the   *)
(* remote workspaces, the sandboxes, the generators and the calls they     *)
(* have issued as they were.                                               *)
(***************************************************************************)
C15_UnknownTypeIgnored ==
    [][\A s \in Sessions :
          (clients'[s] # clients[s] /\ clients'[s].request \notin KnownTypes) =>
              /\ clients'[s].result = EmptyDict
              /\ clients'[s].sandbox_id = clients[s].sandbox_id
              /\ UNCHANGED <<history, init_data, tools, initPc, gens, trace, ws, nSandboxes,
                             cycles, initBy>>]_vars

\* the last request answered is an envelope without a type; an init and a
\* completed plan came before it and a cycle is reading its stream
C15_Witness ==
    \E s \in Sessions :
        /\ clients[s].request = "missing"
        /\ clients[s].result = EmptyDict
        /\ history # <<>>
        /\ init_data # 0
        /\ \E g \in Gens : InStream(g)

\* generator g has loaded its snapshot from sandbox sid and has not written yet
LoadedFrom(g, sid) ==
    /\ InStream(g) \/ gens[g].pc = "writing"
    /\ Events(g, IsLoadCall)[1].sandbox_id = sid

(***************************************************************************)
(* C16: a load changes no file of any sandbox, be it the load of a         *)
(* load_code request or the load of a cycle; and a load_code request for   *)
(* the sandbox a cycle has loaded from and not yet written to returns the  *)
(* file mapping that cycle was given.                                      *)
(***************************************************************************)
C16_LoadIdempotent ==
    [][/\ \A s \in Sessions :
             (clients'[s] # clients[s] /\ clients'[s].request = "load_code") =>
                 /\ ws' = ws
                 /\ clients'[s].result.kind = "message" =>
                        \A g \in Gens :
                            LoadedFrom(g, clients'[s].asked) =>
                                clients'[s].result.data = gens[g].code_map
       /\ \A g \in Gens :
             (gens[g].pc = "loading" /\ gens'[g].pc # "loading") => ws' = ws]_vars

\* a load_code request was answered for the sandbox a cycle has loaded from,
\* which an earlier cycle had written to
C16_Witness ==
    \E s \in Sessions, g \in Gens :
        /\ clients[s].request = "load_code"
        /\ clients[s].result.kind = "message"
        /\ LoadedFrom(g, clients[s].asked)
        /\ clients[s].result.data = gens[g].code_map
        /\ gens[g].code_map # LoadCode(Template)

IsPlanEnvelope(m) == m.type \in {"agent_partial", "agent_final"}

\* type and data of the plan envelopes among envs, in order
PlanPart(envs) ==
    LET plans == SelectSeq(envs, IsPlanEnvelope)
    IN [i \in 1 .. Len(plans) |-> [type |-> plans[i].type, data |-> plans[i].data]]

\* the plan envelopes the items call for: one for every item up to the first
\* Complete one, and none after it
PlanExpected(items) ==
    LET complete == CompleteItems(items)
        last == IF complete = {} THEN Len(items) ELSE Min(complete)
    IN [i \in 1 .. last |->
           [type |-> IF items[i].state = "Complete" THEN "agent_final" ELSE "agent_partial",
            data |-> Text(items[i].value)]]

(***************************************************************************)
(* C17: the plan envelopes of a cycle are, in order, one agent_partial     *)
(* with the item's plan value for every item delivered before the first    *)
(* Complete item, then agent_final for that item, and nothing for the      *)
(* items after it, whatever their plan state and value.                    *)
(***************************************************************************)
C17_PartialsUntilFinal ==
    \A g \in Gens : PlanPart(Envelopes(g)) = PlanExpected(Items(g))

\* after a Complete item, an item whose plan is not Complete has been delivered
C17_Witness ==
    \E g \in Gens :
        /\ Len(Items(g)) = 2
        /\ Items(g)[1].state = "Complete"
        /\ Items(g)[2].state # "Complete"
        /\ Items(g)[2].value # Items(g)[1].value
        /\ Len(PlanPart(Envelopes(g))) = 1

\* the items generator g has received, the last one with the file entries it
\* has gone through only
ItemsSoFar(g) ==
    LET items == Items(g)
        n == Len(items)
    IN IF n = 0 THEN <<>>
       ELSE [items EXCEPT ![n].files = SubSeq(@, 1, gens[g].fidx - 1)]

\* one update_file for every entry whose path is not in seen and not earlier in entries
RECURSIVE FirstSeen(_, _)
FirstSeen(entries, seen) ==
    IF entries = <<>> THEN <<>>
    ELSE (IF Head(entries).path \in seen THEN <<>>
          ELSE <<[type |-> "update_file", data |-> Text(WorkingOn(Head(entries).path))]>>)
         \o FirstSeen(Tail(entries), seen \cup {Head(entries).path})

\* item after item: its plan envelope, then the update_file envelopes of its new paths
RECURSIVE InArrivalOrder(_, _, _)
InArrivalOrder(items, seen, sent) ==
    IF items = <<>> THEN <<>>
    ELSE LET item == Head(items)
             plan == IF sent THEN <<>>
                     ELSE <<[type |-> IF item.state = "Complete"
                                      THEN "agent_final" ELSE "agent_partial",
                             data |-> Text(item.value)]>>
         IN plan \o FirstSeen(item.files, seen)
                 \o InArrivalOrder(Tail(items), seen \cup PathsOf(item.files),
                                   sent \/ item.state = "Complete")

IsStreamEnvelope(m) == m.type \in {"agent_partial", "agent_final", "update_file"}

\* type and data of the plan and file envelopes among envs, in order
StreamPart(envs) ==
    LET part == SelectSeq(envs, IsStreamEnvelope)
    IN [i \in 1 .. Len(part) |-> [type |-> part[i].type, data |-> part[i].data]]

(***************************************************************************)
(* C18: the plan and file envelopes of a cycle come in the order of the    *)
(* stream: the envelopes of an item before those of the next item, within  *)
(* an item the plan envelope before the update_file envelopes, and the     *)
(* update_file envelopes in the order in which their paths first appear.   *)
(***************************************************************************)
C18_ArrivalOrder ==
    \A g \in Gens : StreamPart(Envelopes(g)) = InArrivalOrder(ItemsSoFar(g), {}, FALSE)

\* two items, each with a plan envelope and the update_file envelope of a new path
C18_Witness ==
    \E g \in Gens :
        /\ [i \in 1 .. Len(StreamPart(Envelopes(g))) |-> StreamPart(Envelopes(g))[i].type]
               = <<"agent_partial", "update_file", "agent_final", "update_file">>
        /\ StreamPart(Envelopes(g))[2].data # StreamPart(Envelopes(g))[4].data

(***************************************************************************)
(* C19: whatever requests are in flight and however their steps            *)
(* interleave, the history has even length and its turns are user,         *)
(* assistant, user, assistant, ...: the two turns of a cycle are next to   *)
(* each other, the user turn holding the feedback of that cycle.           *)
(***************************************************************************)
C19_HistoryAlternates ==
    /\ Len(history) % 2 = 0
    /\ \A i \in 1 .. Len(history) :
           history[i].role = (IF i % 2 = 1 THEN "user" ELSE "assistant")
    /\ \A i \in 1 .. Len(history) :
           i % 2 = 1 =>
               \E g \in Gens :
                   /\ history[i].content = gens[g].feedback
                   /\ history[i + 1].content \in {Items(g)[j].value : j \in CompleteItems(Items(g))}

\* two cycles of different sessions, in flight together, have both appended their
\* pair, the cycle that was started second before the other
C19_Witness ==
    /\ InFlight(1)
    /\ InFlight(2)
    /\ Len(history) = 4
    /\ history[1].content = gens[2].feedback
    /\ history[3].content = gens[1].feedback
    /\ gens[1].feedback # gens[2].feedback

LoadCalls(g) == Events(g, IsLoadCall)
StreamCalls(g) == Events(g, IsStreamCall)

\* in every state: one load, then one stream, opened with the history and the
\* remote files as they were when the cycle began and with the feedback as given
C20_OneLoadOneStream ==
    \A g \in Gens :
        LET t == trace[g]
            loads == LoadCalls(g)
            streams == StreamCalls(g)
        IN /\ Len(loads) <= 1
           /\ Len(streams) <= 1
           /\ (gens[g].pc = "loading" \/ gens[g].error = "LoadError") =>
                  (Len(loads) = 1 /\ Len(t) = 2 /\ IsLoadCall(t[2]))
           /\ (InStream(g) \/ gens[g].pc \in {"writing", "done"}
                    \/ gens[g].error \in {"GenerationError", "WriteError"}) =>
                  /\ Len(loads) = 1
                  /\ Len(streams) = 1
                  /\ IsLoadCall(t[2])
                  /\ IsStreamCall(t[3])
                  /\ streams[1].arg.history = GetHistory(gens[g].history_at_start)
                  /\ streams[1].arg.feedback = gens[g].feedback
                  /\ streams[1].arg.code_files =
                         CodeFiles(LoadCode(gens[g].ws_at_start[loads[1].sandbox_id]))

\* in every step that starts the next cycle after a completed one: the sandbox
\* the completed cycle wrote to holds what it held when that cycle began, changed
\* by the write; the history is the one of that cycle's start, with its pair
\* when it emitted agent_final
C20_NextCycleSeesCommit ==
    \A g \in Gens :
        (gens[g].pc = "done" /\ gens'[g].pc = "started") =>
            LET w == WriteCalls(g)[1]
                finals == OfType(Envelopes(g), "agent_final")
            IN /\ gens'[g].ws_at_start[w.sandbox_id] =
                      EditCode(gens[g].ws_at_start[w.sandbox_id], w.arg)
               /\ gens'[g].history_at_start =
                      IF finals = {} THEN gens[g].history_at_start
                      ELSE gens[g].history_at_start \o
                               TurnPair(gens[g].feedback,
                                        Items(g)[Min(CompleteItems(Items(g)))].value)

(***************************************************************************)
(* C20: a cycle issues one load call, right after update_in_progress, and  *)
(* opens one stream, with the whole history as it was when the cycle       *)
(* began (the turn of its own feedback not in it), its feedback, and the   *)
(* files the sandbox held then; when cycles follow one another, the next   *)
(* cycle starts from the files the completed one committed and from a      *)
(* history that holds its turn pair if it emitted agent_final.             *)
(***************************************************************************)
C20_FreshLoadOneStream == []C20_OneLoadOneStream /\ [][C20_NextCycleSeesCommit]_vars

\* the second cycle has opened its stream with the pair of the first cycle and
\* with a file the first cycle wrote
C20_Witness ==
    \E g \in Gens :
        /\ gens[g].n = 2
        /\ Len(StreamCalls(g)) = 1
        /\ Len(StreamCalls(g)[1].arg.history) = 2
        /\ [path |-> "src/index.css", content |-> "v2"] \in StreamCalls(g)[1].arg.code_files

(***************************************************************************)
(* C21: get_code_for_display is best-effort.  When the listing of a        *)
(* directory, the read of a file or the read of package.json fails inside  *)
(* the call, the request is still answered with {sandbox_id, files}; the   *)
(* file, every file below the directory, or the package.json key is not in *)
(* files; and every key of files other than package.json has an extension  *)
(* of the safe-list.                                                       *)
(***************************************************************************)
C21_BestEffortDisplay ==
    \A s \in Sessions :
        LET c == clients[s]
        IN c.request = "get_code_for_display" =>
             /\ c.failed # {} => c.result.kind = "message"
             /\ c.result.kind = "message" =>
                  LET files == c.result.data.files
                  IN /\ c.result.type = "code_display_response"
                     /\ DOMAIN c.result.data = {"sandbox_id", "files"}
                     /\ c.result.data.sandbox_id = c.asked
                     /\ \A p \in SandboxPaths :
                            (p \in c.failed \/ Ancestors(p) \cap c.failed # {}) =>
                                RelativePath(p) \notin DOMAIN files
                     /\ "package.json" \in c.failed => "package.json" \notin DOMAIN files
                     /\ \A k \in DOMAIN files \ {"package.json"} : Suffix(k) \in SafeList

\* C21 witness: the listing of src/components and the read of package.json failed
\* in a sandbox that has src/logo.svg, and the request was answered with App.tsx alone
C21_Witness ==
    \E s \in Sessions :
        /\ clients[s].request = "get_code_for_display"
        /\ clients[s].failed = {"src/components", "package.json"}
        /\ clients[s].result.kind = "message"
        /\ ws[clients[s].asked]["src/logo.svg"] # Absent
        /\ ws[clients[s].asked]["src/components/Nav.tsx"] # Absent
        /\ clients[s].result.data.files = [k \in {"App.tsx"} |-> ws[clients[s].asked]["src/App.tsx"]]

\* the cycle has run to its end: update_completed was yielded
Completed(g) == gens[g].pc = "done"

(***************************************************************************)
(* C22: in every completed cycle the sandbox id of the write call is the   *)
(* sandbox id of the cycle's load call, whatever init requests the Agent   *)
(* handled between the two.                                                *)
(***************************************************************************)
C22_WriteWhereLoaded ==
    \A g \in Gens :
        (Completed(g) /\ WriteCalls(g) # <<>>) =>
            WriteCalls(g)[1].sandbox_id = LoadCalls(g)[1].sandbox_id

\* the cycle has ended with an exception that left the generator
Failed(g) == gens[g].pc = "failed"

\* what line 184 (the lookup of the sandbox id, the load), the stream and line 244 raise
Failures == {"KeyError", "LoadError", "GenerationError", "WriteError"}

(***************************************************************************)
(* C23: every cycle terminates.  When the consumer keeps pulling, the      *)
(* load and the write return or fail and the stream ends or fails, a cycle *)
(* that has begun reaches COMPLETED (update_completed yielded) or FAILED;  *)
(* and it is FAILED only when its load step, its stream or its write has   *)
(* failed, so a cycle in which none of them fails reaches COMPLETED.       *)
(***************************************************************************)
C23_CycleTerminates ==
    /\ \A g \in Gens, n \in 1 .. MaxCycles :
           (gens[g].n = n /\ InFlight(g)) ~>
               (gens[g].n = n /\ (Completed(g) \/ Failed(g)))
    /\ [](\A g \in Gens :
             /\ Failed(g) <=> gens[g].error \in Failures
             /\ Completed(g) =>
                    Envelopes(g)[Len(Envelopes(g))].type = "update_completed")

\* C23 witness: a cycle that read every item the stream had, none of them with a
\* Complete plan, and completed
C23_Witness ==
    \E g \in Gens :
        /\ Completed(g)
        /\ Len(Items(g)) = MaxItems
        /\ CompleteItems(Items(g)) = {}
        /\ Len(WriteCalls(g)) = 1

====
